---- MODULE Spec2Model ----
(***************************************************************************)
(* Smart Plant Monitor backend (web_application/main.py): the plant-status *)
(* evaluator, the weather-forecast cache, the settings store, the          *)
(* automatic-watering cooldown and the device command flags, as a state    *)
(* machine with one action per request handler.                            *)
(*                                                                         *)
(* Time is in minutes.  A Python value that may be None is a sequence of   *)
(* length 0 (None) or 1 (the value).                                       *)
(***************************************************************************)
EXTENDS Integers, Sequences, FiniteSets, TLC

VARIABLES
    now,                     \* the wall clock read by datetime.now()
    WEATHER_API_KEY,         \* main.py:32, set once by setup_weather_api
    cached_weather,          \* main.py:33
    cached_weather_time,     \* main.py:34
    last_auto_watering_time, \* main.py:35
    device_commands,         \* main.py:50-53
    settings,                \* rows of the settings table, in rowid order
    sensor_data,             \* newest row of the sensor_data table
    plant_status,            \* newest row of the plant_status table
    inflight,                \* per request slot: locals of a running receive_sensor_data
    response,                \* the last HTTP response sent, with the outbound lookup it made
    last_grant,              \* history: timestamp of the last should_water = true response
    eval_input,              \* the arguments of the last evaluate_plant_status call
    verdict,                 \* the result of the last evaluate_plant_status call
    last_emitted_status,     \* alert de-duplicator: NotificationState
    status_seq,              \* alert de-duplicator harness: statuses processed so far
    notified                 \* alert de-duplicator harness: indices (from 0) that notified

vars == <<now, WEATHER_API_KEY, cached_weather, cached_weather_time,
          last_auto_watering_time, device_commands, settings, sensor_data,
          plant_status, inflight, response, last_grant,
          eval_input, verdict, last_emitted_status, status_seq, notified>>

coreVars == <<now, WEATHER_API_KEY, cached_weather, cached_weather_time,
              last_auto_watering_time, device_commands, settings, sensor_data,
              plant_status, inflight, response, last_grant>>

evalVars == <<eval_input, verdict>>

dedupVars == <<last_emitted_status, status_seq, notified>>

---------------------------------------------------------------------------
\* Python values

None == <<>>

Some(v) == <<v>>

\* bool(x) of a datetime or of a dict with keys: false only for None
Truthy(x) == x # None

\* bool(x) of an optional str: false for None and for ""
TruthyStr(x) == x # None /\ x[1] # ""

---------------------------------------------------------------------------
\* Configuration constants (minutes)

WEATHER_CACHE_DURATION == 180

AUTO_WATERING_COOLDOWN == 30

---------------------------------------------------------------------------
\* Bounds of the model

\* how many instants of its clock a specification's wall clock may show
MaxTicks == 3

\* how many verdicts the de-duplicator harness processes
MaxVerdicts == 6

\* the readings of datetime.now() drawn around the cooldown: gaps below it
\* (10, 20) and at it (30)
CooldownClock == <<0, 10, 30, 40, 60>>

\* the readings of datetime.now() drawn around the cache duration: gaps
\* below it (10, 170) and at it (180)
CacheClock == <<0, 170, 180, 350, 360>>

Instants(clock) == {clock[i] : i \in 1..MaxTicks}

\* the request slots of receive_sensor_data: two are enough for any race
\* between a pair of requests
Requests == {"r1", "r2"}

Users == {"admin", "bob"}

---------------------------------------------------------------------------
\* Plant status evaluation

\* the recommendation texts; a text with an interpolated value is paired
\* with that value
RecWater == "Plant needs watering - humidity too low"

RecRainSkip == "Plant needs water but rain expected - skip watering"

RecTempHigh == "Temperature too high - move to cooler location"

RecTempLow == "Temperature too low - move to warmer location"

RecLightLow == "Insufficient light - move to brighter location"

RecLightHigh == "Too much light - add shade or relocate"

\* variant: the humidity branch consults the cooldown clock
HumidityRecs_cooldown_aware(sensor, th, weather) ==
    IF sensor.humidity < th.min_humidity
    THEN IF ~weather.will_rain /\ last_auto_watering_time = None
         THEN << <<RecWater>> >>
         ELSE << <<RecRainSkip, weather.rain_amount>> >>
    ELSE << >>

\* evaluate_plant_status, lines 260-268: the humidity branch
HumidityRecs(sensor, th, weather) ==
    IF sensor.humidity < th.min_humidity
    THEN IF ~weather.will_rain
         THEN << <<RecWater>> >>
         ELSE << <<RecRainSkip, weather.rain_amount>> >>
    ELSE << >>

\* variant: the humidity test with <= for <
LocalShouldWater_inclusive(sensor, th, weather) ==
    sensor.humidity <= th.min_humidity /\ ~weather.will_rain

\* evaluate_plant_status, lines 261-264: the local should_water
LocalShouldWater(sensor, th, weather) ==
    sensor.humidity < th.min_humidity /\ ~weather.will_rain

\* variant: the temperature tests with >= and <= for > and <
TemperatureRecs_inclusive(sensor, th) ==
    IF sensor.temperature >= th.max_temp
    THEN << <<RecTempHigh, sensor.temperature>> >>
    ELSE IF sensor.temperature <= th.min_temp
         THEN << <<RecTempLow, sensor.temperature>> >>
         ELSE << >>

\* evaluate_plant_status, lines 270-278
TemperatureRecs(sensor, th) ==
    IF sensor.temperature > th.max_temp
    THEN << <<RecTempHigh, sensor.temperature>> >>
    ELSE IF sensor.temperature < th.min_temp
         THEN << <<RecTempLow, sensor.temperature>> >>
         ELSE << >>

\* variant: the two light tests as independent ifs
LightRecs_independent(sensor, th) ==
    (IF sensor.light_level < th.min_light
     THEN << <<RecLightLow, sensor.light_level>> >> ELSE << >>)
    \o (IF sensor.light_level > th.max_light
        THEN << <<RecLightHigh, sensor.light_level>> >> ELSE << >>)

\* evaluate_plant_status, lines 280-288
LightRecs(sensor, th) ==
    IF sensor.light_level < th.min_light
    THEN << <<RecLightLow, sensor.light_level>> >>
    ELSE IF sensor.light_level > th.max_light
         THEN << <<RecLightHigh, sensor.light_level>> >>
         ELSE << >>

\* variant: a position recommendation takes precedence over watering
OverallStatus_position_first(recommendations, should_water) ==
    IF recommendations = << >> THEN "Healthy"
    ELSE IF should_water /\ Len(recommendations) = 1 THEN "Needs water"
    ELSE "Change position"

\* evaluate_plant_status, lines 290-296
OverallStatus(recommendations, should_water) ==
    IF recommendations = << >> THEN "Healthy"
    ELSE IF should_water THEN "Needs water"
    ELSE "Change position"

evaluate_plant_status(sensor, th, weather) ==
    LET recommendations == HumidityRecs(sensor, th, weather)
                           \o TemperatureRecs(sensor, th)
                           \o LightRecs(sensor, th)
        should_water == LocalShouldWater(sensor, th, weather)
    IN  [status          |-> OverallStatus(recommendations, should_water),
         recommendations |-> recommendations,
         should_water    |-> should_water /\ ~weather.will_rain]

---------------------------------------------------------------------------
\* Settings store

Thresholds(mh, xt, nt, nl, xl, loc) ==
    [min_humidity |-> mh, max_temp |-> xt, min_temp |-> nt,
     min_light |-> nl, max_light |-> xl, location |-> loc]

\* variant: another default location
DefaultSettings_rome == Thresholds(30, 35, 15, 20, 80, "Rome")

\* get_settings, lines 347-354
DefaultSettings == Thresholds(30, 35, 15, 20, 80, "Cagliari")

SettingsRow(user, th) ==
    [user_id |-> user, min_humidity |-> th.min_humidity, max_temp |-> th.max_temp,
     min_temp |-> th.min_temp, min_light |-> th.min_light,
     max_light |-> th.max_light, location |-> th.location]

\* get_settings: SELECT ... FROM settings LIMIT 1; read_ok = FALSE is the
\* query raising (caught at line 342)
get_settings(read_ok) ==
    IF read_ok /\ Len(settings) > 0
    THEN LET row == settings[1]
         IN  Thresholds(row.min_humidity, row.max_temp, row.min_temp,
                        row.min_light, row.max_light, row.location)
    ELSE DefaultSettings

---------------------------------------------------------------------------
\* Weather forecast

\* what requests.get can produce: a 200 with a forecast payload, another
\* status code, or an exception (timeout, connection error, bad JSON)
NetOutcomes ==
    { [kind |-> "ok", daily_will_it_rain |-> 0, totalprecip_mm |-> 0, text |-> "Sunny"],
      [kind |-> "ok", daily_will_it_rain |-> 1, totalprecip_mm |-> 5, text |-> "Rain"],
      [kind |-> "http_error"],
      [kind |-> "exception"] }

Forecast(will_rain, rain_amount, condition, location) ==
    [will_rain |-> will_rain, rain_amount |-> rain_amount,
     condition |-> condition, location |-> location]

\* variant: the cache age test with <= for <
CacheValid_inclusive ==
    /\ Truthy(cached_weather)
    /\ Truthy(cached_weather_time)
    /\ (now - cached_weather_time[1]) <= WEATHER_CACHE_DURATION

\* get_weather_forecast, lines 185-186
CacheValid ==
    /\ Truthy(cached_weather)
    /\ Truthy(cached_weather_time)
    /\ (now - cached_weather_time[1]) < WEATHER_CACHE_DURATION

\* variant: a failed lookup stores its fallback forecast in the cache
get_weather_forecast_sticky(location, net) ==
    IF ~TruthyStr(WEATHER_API_KEY)
    THEN [result |-> Forecast(FALSE, 0, "API not configured", location),
          lookup |-> "none",
          cache |-> cached_weather, cache_time |-> cached_weather_time]
    ELSE IF CacheValid
    THEN [result |-> cached_weather[1],
          lookup |-> "none",
          cache |-> cached_weather, cache_time |-> cached_weather_time]
    ELSE IF net.kind = "ok"
    THEN LET result == Forecast(net.daily_will_it_rain = 1, net.totalprecip_mm,
                                net.text, location)
         IN  [result |-> result,
              lookup |-> "ok",
              cache |-> Some(result), cache_time |-> Some(now)]
    ELSE LET result == Forecast(FALSE, 0, "Unknown", location)
         IN  [result |-> result,
              lookup |-> "failed",
              cache |-> Some(result), cache_time |-> Some(now)]

\* get_weather_forecast: the forecast returned, whether requests.get was
\* called ("none", "ok", "failed"), and the cache afterwards
get_weather_forecast(location, net) ==
    IF ~TruthyStr(WEATHER_API_KEY)
    THEN [result |-> Forecast(FALSE, 0, "API not configured", location),
          lookup |-> "none",
          cache |-> cached_weather, cache_time |-> cached_weather_time]
    ELSE IF CacheValid
    THEN [result |-> cached_weather[1],
          lookup |-> "none",
          cache |-> cached_weather, cache_time |-> cached_weather_time]
    ELSE IF net.kind = "ok"
    THEN LET result == Forecast(net.daily_will_it_rain = 1, net.totalprecip_mm,
                                net.text, location)
         IN  [result |-> result,
              lookup |-> "ok",
              cache |-> Some(result), cache_time |-> Some(now)]
    ELSE [result |-> Forecast(FALSE, 0, "Unknown", location),
          lookup |-> "failed",
          cache |-> cached_weather, cache_time |-> cached_weather_time]

---------------------------------------------------------------------------
\* Requests and responses

\* SensorData bodies the device posts (validated by the model at lines 81-86)
SensorInputs ==
    { [temperature |-> 25, humidity |-> 20, light_level |-> 50],
      [temperature |-> 25, humidity |-> 50, light_level |-> 50],
      [temperature |-> 40, humidity |-> 50, light_level |-> 50] }

\* ThresholdUpdate bodies the dashboard posts (lines 89-96)
SettingsInputs ==
    { Thresholds(30, 35, 15, 20, 80, "Cagliari"),
      Thresholds(30, 35, 15, 20, 80, "Rome"),
      Thresholds(10, 35, 15, 20, 80, "Cagliari") }

\* the settings tables the database file may hold at startup
SettingsTables ==
    { << >>,
      << SettingsRow("admin", DefaultSettings) >>,
      << SettingsRow("admin", Thresholds(10, 35, 15, 20, 80, "Rome")),
         SettingsRow("bob", DefaultSettings) >> }

\* the settings table drawn on the irrigation path: a row far from the
\* defaults (a table without rows reads as the defaults, as does a failing
\* read of this one)
IrrigationTables ==
    { << SettingsRow("admin", Thresholds(10, 35, 15, 20, 80, "Cagliari")) >> }

\* an HTTP response: the endpoint, the status code, the JSON body, and the
\* outcome of the outbound forecast request the handler made, if any
Response(op, code, body, lookup) ==
    [op |-> op, code |-> code, body |-> body, lookup |-> lookup]

\* raise HTTPException(status_code=500, ...)
Error500(op) == Response(op, 500, [detail |-> "failed"], "none")

\* variant: handlers run on a thread pool, so requests overlap
EventLoopIdle_threads == TRUE

\* uvicorn runs every `async def` handler on its one event loop, and no
\* handler awaits: a handler that has started runs to its return before any
\* other handler starts
EventLoopIdle == \A r \in Requests : inflight[r] = None

\* variant: the cooldown test with <= for <
CooldownBlocks_inclusive(t) ==
    /\ Truthy(last_auto_watering_time)
    /\ (t - last_auto_watering_time[1]) <= AUTO_WATERING_COOLDOWN

\* the cooldown test of receive_sensor_data, lines 476-477, at clock reading t
CooldownBlocks(t) ==
    /\ Truthy(last_auto_watering_time)
    /\ (t - last_auto_watering_time[1]) < AUTO_WATERING_COOLDOWN

\* variant: the clock reading is recorded on every ingestion, granted or not
CooldownUpdate_always(local) == Some(local.now)

\* receive_sensor_data, lines 476-484: last_auto_watering_time after the
\* cooldown block, given the handler's locals (should_water after the block)
CooldownUpdate(local) ==
    IF local.should_water THEN Some(local.now) ELSE last_auto_watering_time

---------------------------------------------------------------------------
\* The clock

Tick(clock) ==
    /\ EventLoopIdle
    /\ \E t \in Instants(clock) : t > now /\ now' = t
    /\ UNCHANGED <<WEATHER_API_KEY, cached_weather, cached_weather_time,
                   last_auto_watering_time, device_commands, settings, sensor_data,
                   plant_status, inflight, response, last_grant>>
    /\ UNCHANGED <<evalVars, dedupVars>>

---------------------------------------------------------------------------
\* POST /api/sensor-data

\* receive_sensor_data, lines 444-477: store the reading, load the settings,
\* fetch the forecast, evaluate, read the clock and test the cooldown
receive_sensor_data_check(r, data, insert_ok, read_ok, net) ==
    /\ EventLoopIdle
    /\ inflight[r] = None
    /\ IF ~insert_ok
       THEN /\ response' = Error500("sensor-data")
            /\ UNCHANGED <<cached_weather, cached_weather_time, sensor_data, inflight>>
            /\ UNCHANGED evalVars
       ELSE LET thresholds == get_settings(read_ok)
                wf == get_weather_forecast(thresholds.location, net)
                evaluation == evaluate_plant_status(data, thresholds, wf.result)
            IN  /\ sensor_data' = Some([temperature |-> data.temperature,
                                        humidity |-> data.humidity,
                                        light_level |-> data.light_level,
                                        timestamp |-> now])
                /\ cached_weather' = wf.cache
                /\ cached_weather_time' = wf.cache_time
                /\ inflight' = [inflight EXCEPT ![r] =
                       Some([timestamp |-> now,
                             weather_info |-> wf.result,
                             lookup |-> wf.lookup,
                             evaluation |-> evaluation,
                             now |-> now,
                             should_water |-> evaluation.should_water
                                              /\ ~CooldownBlocks(now)])]
                /\ response' = None
                /\ eval_input' = Some([sensor |-> data, thresholds |-> thresholds,
                                        weather |-> wf.result])
                /\ verdict' = Some(evaluation)
    /\ UNCHANGED <<now, WEATHER_API_KEY, last_auto_watering_time, device_commands,
                   settings, plant_status, last_grant>>
    /\ UNCHANGED dedupVars

\* receive_sensor_data, lines 478-507: record the grant, store the status
\* record, answer (or answer 500 when the status insert raises)
receive_sensor_data_commit(r, status_ok) ==
    /\ inflight[r] # None
    /\ LET local == inflight[r][1]
       IN  /\ last_auto_watering_time' = CooldownUpdate(local)
           /\ IF status_ok
              THEN /\ plant_status' = Some([status |-> local.evaluation.status,
                                            recommendations |-> local.evaluation.recommendations,
                                            timestamp |-> local.timestamp])
                   /\ response' = Response("sensor-data", 200,
                                      [status |-> "success",
                                       should_water |-> local.should_water,
                                       weather |-> local.weather_info,
                                       plant_status |-> local.evaluation.status,
                                       timestamp |-> local.timestamp],
                                      local.lookup)
                   /\ last_grant' = IF local.should_water THEN Some(local.now)
                                    ELSE last_grant
              ELSE /\ response' = Error500("sensor-data")
                   /\ UNCHANGED <<plant_status, last_grant>>
    /\ inflight' = [inflight EXCEPT ![r] = None]
    /\ UNCHANGED <<now, WEATHER_API_KEY, cached_weather, cached_weather_time,
                   device_commands, settings, sensor_data>>
    /\ UNCHANGED <<evalVars, dedupVars>>

---------------------------------------------------------------------------
\* GET /api/device-commands, POST /api/manual-water, POST /api/toggle-auto-watering

\* variant: the poll leaves the manual_water flag set
get_device_commands_no_reset ==
    /\ EventLoopIdle
    /\ response' = Response("device-commands", 200, device_commands, "none")
    /\ UNCHANGED <<now, WEATHER_API_KEY, cached_weather, cached_weather_time,
                   last_auto_watering_time, settings, sensor_data, plant_status,
                   inflight, last_grant, device_commands>>
    /\ UNCHANGED <<evalVars, dedupVars>>

get_device_commands ==
    /\ EventLoopIdle
    /\ response' = Response("device-commands", 200, device_commands, "none")
    /\ device_commands' = [device_commands EXCEPT !.manual_water = FALSE]
    /\ UNCHANGED <<now, WEATHER_API_KEY, cached_weather, cached_weather_time,
                   last_auto_watering_time, settings, sensor_data, plant_status,
                   inflight, last_grant>>
    /\ UNCHANGED <<evalVars, dedupVars>>

manual_water(current_user) ==
    /\ EventLoopIdle
    /\ device_commands' = [device_commands EXCEPT !.manual_water = TRUE]
    /\ response' = Response("manual-water", 200, [status |-> "success"], "none")
    /\ UNCHANGED <<now, WEATHER_API_KEY, cached_weather, cached_weather_time,
                   last_auto_watering_time, settings, sensor_data, plant_status,
                   inflight, last_grant>>
    /\ UNCHANGED <<evalVars, dedupVars>>

\* variant: the handler switches automatic watering on, whatever it was
toggle_auto_watering_enable(current_user) ==
    /\ EventLoopIdle
    /\ device_commands' = [device_commands EXCEPT !.auto_watering_enabled = TRUE]
    /\ response' = Response("toggle-auto-watering", 200,
                       [status |-> "success", auto_watering_enabled |-> TRUE],
                       "none")
    /\ UNCHANGED <<now, WEATHER_API_KEY, cached_weather, cached_weather_time,
                   last_auto_watering_time, settings, sensor_data, plant_status,
                   inflight, last_grant>>
    /\ UNCHANGED <<evalVars, dedupVars>>

toggle_auto_watering(current_user) ==
    /\ EventLoopIdle
    /\ device_commands' = [device_commands EXCEPT
                              !.auto_watering_enabled = ~device_commands.auto_watering_enabled]
    /\ response' = Response("toggle-auto-watering", 200,
                       [status |-> "success",
                        auto_watering_enabled |-> ~device_commands.auto_watering_enabled],
                       "none")
    /\ UNCHANGED <<now, WEATHER_API_KEY, cached_weather, cached_weather_time,
                   last_auto_watering_time, settings, sensor_data, plant_status,
                   inflight, last_grant>>
    /\ UNCHANGED <<evalVars, dedupVars>>

---------------------------------------------------------------------------
\* GET /api/weather, POST /api/settings, GET /api/current-status

get_weather(read_ok, net) ==
    /\ EventLoopIdle
    /\ LET thresholds == get_settings(read_ok)
           wf == get_weather_forecast(thresholds.location, net)
       IN  /\ cached_weather' = wf.cache
           /\ cached_weather_time' = wf.cache_time
           /\ response' = Response("weather", 200, wf.result, wf.lookup)
    /\ UNCHANGED <<now, WEATHER_API_KEY, last_auto_watering_time, device_commands,
                   settings, sensor_data, plant_status, inflight, last_grant>>
    /\ UNCHANGED <<evalVars, dedupVars>>

\* UPDATE settings SET ... WHERE user_id = (SELECT id FROM users WHERE username = ?)
UpdateRows(new, current_user) ==
    [i \in DOMAIN settings |->
        IF settings[i].user_id = current_user
        THEN SettingsRow(current_user, new)
        ELSE settings[i]]

\* variant: a location change clears the cache timestamp only
update_settings_keeps_forecast(new, current_user, read_ok, write_ok) ==
    /\ EventLoopIdle
    /\ LET old_settings == get_settings(read_ok)
       IN  IF ~write_ok
           THEN /\ response' = Error500("settings")
                /\ UNCHANGED <<settings, cached_weather, cached_weather_time>>
           ELSE /\ settings' = UpdateRows(new, current_user)
                /\ IF old_settings.location # new.location
                   THEN /\ cached_weather_time' = None
                        /\ UNCHANGED cached_weather
                   ELSE UNCHANGED <<cached_weather, cached_weather_time>>
                /\ response' = Response("settings", 200, [status |-> "success"], "none")
    /\ UNCHANGED <<now, WEATHER_API_KEY, last_auto_watering_time, device_commands,
                   sensor_data, plant_status, inflight, last_grant>>
    /\ UNCHANGED <<evalVars, dedupVars>>

update_settings(new, current_user, read_ok, write_ok) ==
    /\ EventLoopIdle
    /\ LET old_settings == get_settings(read_ok)
       IN  IF ~write_ok
           THEN /\ response' = Error500("settings")
                /\ UNCHANGED <<settings, cached_weather, cached_weather_time>>
           ELSE /\ settings' = UpdateRows(new, current_user)
                /\ IF old_settings.location # new.location
                   THEN /\ cached_weather_time' = None
                        /\ cached_weather' = None
                   ELSE UNCHANGED <<cached_weather, cached_weather_time>>
                /\ response' = Response("settings", 200, [status |-> "success"], "none")
    /\ UNCHANGED <<now, WEATHER_API_KEY, last_auto_watering_time, device_commands,
                   sensor_data, plant_status, inflight, last_grant>>
    /\ UNCHANGED <<evalVars, dedupVars>>

\* variant: "No data" is reported when there is no status record
get_current_status_by_status_row(read_ok) ==
    /\ EventLoopIdle
    /\ response' =
          IF ~read_ok THEN Error500("current-status")
          ELSE IF ~Truthy(plant_status)
          THEN Response("current-status", 200,
                   [timestamp |-> now,
                    status |-> "No data",
                    auto_watering_enabled |-> device_commands.auto_watering_enabled],
                   "none")
          ELSE Response("current-status", 200,
                   [timestamp |-> sensor_data[1].timestamp,
                    status |-> plant_status[1].status,
                    auto_watering_enabled |-> device_commands.auto_watering_enabled],
                   "none")
    /\ UNCHANGED <<now, WEATHER_API_KEY, cached_weather, cached_weather_time,
                   last_auto_watering_time, device_commands, settings, sensor_data,
                   plant_status, inflight, last_grant>>
    /\ UNCHANGED <<evalVars, dedupVars>>

\* get_current_status: read_ok = FALSE is a query raising (caught at line 627)
get_current_status(read_ok) ==
    /\ EventLoopIdle
    /\ response' =
          IF ~read_ok THEN Error500("current-status")
          ELSE IF ~Truthy(sensor_data)
          THEN Response("current-status", 200,
                   [timestamp |-> now,
                    status |-> "No data",
                    auto_watering_enabled |-> device_commands.auto_watering_enabled],
                   "none")
          ELSE Response("current-status", 200,
                   [timestamp |-> sensor_data[1].timestamp,
                    status |-> IF Truthy(plant_status) THEN plant_status[1].status
                               ELSE "Unknown",
                    auto_watering_enabled |-> device_commands.auto_watering_enabled],
                   "none")
    /\ UNCHANGED <<now, WEATHER_API_KEY, cached_weather, cached_weather_time,
                   last_auto_watering_time, device_commands, settings, sensor_data,
                   plant_status, inflight, last_grant>>
    /\ UNCHANGED <<evalVars, dedupVars>>

\* GET /api/health
health_check ==
    /\ EventLoopIdle
    /\ response' = Response("health", 200,
                       [status |-> "healthy",
                        timestamp |-> now,
                        weather_api |-> IF TruthyStr(WEATHER_API_KEY) THEN "configured"
                                        ELSE "not configured",
                        auto_watering |-> device_commands.auto_watering_enabled],
                       "none")
    /\ UNCHANGED <<now, WEATHER_API_KEY, cached_weather, cached_weather_time,
                   last_auto_watering_time, device_commands, settings, sensor_data,
                   plant_status, inflight, last_grant>>
    /\ UNCHANGED <<evalVars, dedupVars>>

---------------------------------------------------------------------------
\* The server

EvalIdle == eval_input = None /\ verdict = None

DedupIdle == last_emitted_status = None /\ status_seq = << >> /\ notified = {}

\* the module-level state of main.py at startup (lines 31-53), with the
\* credential setup_weather_api left and the settings table of the database
InitCore(keys, tables) ==
    /\ now = 0
    /\ WEATHER_API_KEY \in keys
    /\ cached_weather = None
    /\ cached_weather_time = None
    /\ last_auto_watering_time = None
    /\ device_commands = [manual_water |-> FALSE, auto_watering_enabled |-> FALSE]
    /\ settings \in tables
    /\ sensor_data = None
    /\ plant_status = None
    /\ inflight = [r \in Requests |-> None]
    /\ response = None
    /\ last_grant = None

Init ==
    /\ InitCore({None, Some("key")}, IrrigationTables)
    /\ EvalIdle
    /\ DedupIdle

\* the irrigation path: the device posts readings, users water by hand
Next ==
    \/ Tick(CooldownClock)
    \/ \E r \in Requests, data \in SensorInputs, insert_ok \in BOOLEAN,
          read_ok \in BOOLEAN, net \in NetOutcomes :
          receive_sensor_data_check(r, data, insert_ok, read_ok, net)
    \/ \E r \in Requests, status_ok \in BOOLEAN : receive_sensor_data_commit(r, status_ok)
    \/ \E u \in Users : manual_water(u)

Spec == Init /\ [][Next]_vars

\* the forecast path: the dashboard reads the forecast and updates the settings
InitWeather ==
    /\ InitCore({None, Some(""), Some("key")}, SettingsTables)
    /\ EvalIdle
    /\ DedupIdle

NextWeather ==
    \/ Tick(CacheClock)
    \/ \E read_ok \in BOOLEAN, net \in NetOutcomes : get_weather(read_ok, net)
    \/ \E new \in SettingsInputs, u \in Users, read_ok \in BOOLEAN, write_ok \in BOOLEAN :
          update_settings(new, u, read_ok, write_ok)

SpecWeather == InitWeather /\ [][NextWeather]_vars

\* the device path: the device posts readings and polls its commands, users
\* water by hand, switch automatic watering and query the status; no weather
\* credential, no settings row
InitDevice ==
    /\ InitCore({None}, {<< >>})
    /\ EvalIdle
    /\ DedupIdle

NextDevice ==
    \/ Tick(CooldownClock)
    \/ \E r \in Requests, data \in SensorInputs, insert_ok \in BOOLEAN,
          read_ok \in BOOLEAN, net \in NetOutcomes :
          receive_sensor_data_check(r, data, insert_ok, read_ok, net)
    \/ \E r \in Requests, status_ok \in BOOLEAN : receive_sensor_data_commit(r, status_ok)
    \/ get_device_commands
    \/ \E u \in Users : manual_water(u)
    \/ \E u \in Users : toggle_auto_watering(u)
    \/ \E read_ok \in BOOLEAN : get_current_status(read_ok)
    \/ health_check

SpecDevice == InitDevice /\ [][NextDevice]_vars

---------------------------------------------------------------------------
\* The evaluator on its own: one evaluation of a drawn input

\* thresholds a ThresholdUpdate accepts (lines 91-95 bound each field on its
\* own): the defaults, and a set with min_temp > max_temp, min_light > max_light
EvalThresholds ==
    { DefaultSettings,
      Thresholds(30, 30, 40, 80, 20, "Cagliari") }

\* readings on, just below and just above every threshold of EvalThresholds
EvalSensors ==
    [temperature : {14, 15, 16, 29, 30, 31, 34, 35, 36, 39, 40, 41},
     humidity    : {29, 30, 31},
     light_level : {19, 20, 21, 79, 80, 81}]

EvalForecasts ==
    { Forecast(FALSE, 0, "Sunny", "Cagliari"),
      Forecast(TRUE, 5, "Rain", "Cagliari") }

EvalInputs ==
    [sensor : EvalSensors, thresholds : EvalThresholds, weather : EvalForecasts]

CoreIdle == InitCore({None}, {<< >>})

InitEval ==
    /\ CoreIdle
    /\ DedupIdle
    /\ eval_input \in {Some(i) : i \in EvalInputs}
    /\ verdict = None

Evaluate ==
    /\ verdict = None
    /\ verdict' = Some(evaluate_plant_status(eval_input[1].sensor,
                                             eval_input[1].thresholds,
                                             eval_input[1].weather))
    /\ UNCHANGED <<eval_input, coreVars, dedupVars>>

NextEval == Evaluate

SpecEval == InitEval /\ [][NextEval]_vars

---------------------------------------------------------------------------
\* The alert de-duplicator (design section 4.4): notify on a transition into
\* a negative status, remember every status processed

Statuses == {"Healthy", "Needs water", "Change position", "No data"}

NegativeStatuses == {"Needs water", "Change position", "No data"}

\* variant: notify on every change of status, Healthy included
should_notify_any_change(new_status, last_emitted) ==
    Some(new_status) # last_emitted

should_notify(new_status, last_emitted) ==
    Some(new_status) # last_emitted /\ new_status \in NegativeStatuses

ProcessVerdict(new_status) ==
    /\ Len(status_seq) < MaxVerdicts
    /\ notified' = IF should_notify(new_status, last_emitted_status)
                   THEN notified \cup {Len(status_seq)}
                   ELSE notified
    /\ last_emitted_status' = Some(new_status)
    /\ status_seq' = Append(status_seq, new_status)
    /\ UNCHANGED <<coreVars, evalVars>>

InitDedup ==
    /\ CoreIdle
    /\ EvalIdle
    /\ DedupIdle

NextDedup == \E s \in Statuses : ProcessVerdict(s)

SpecDedup == InitDedup /\ [][NextDedup]_vars

---------------------------------------------------------------------------
\* Properties of the irrigation path (Spec)

\* the step in which request r's receive_sensor_data passes its cooldown block
\* and returns
CommitStep(r) == inflight[r] # None /\ inflight'[r] = None

SensorOk(resp) == resp # None /\ resp.op = "sensor-data" /\ resp.code = 200

\* the cooldown rule of the claim, on the evaluation's should_water at clock
\* reading t
Permitted(eval_should_water, t) ==
    /\ eval_should_water
    /\ \/ last_auto_watering_time = None
       \/ t - last_auto_watering_time[1] >= AUTO_WATERING_COOLDOWN

\* C1: on each sensor-data ingestion the handler's should_water, and the
\* should_water of the response it returns, is true iff the evaluation's
\* should_water is true and last_auto_watering_time is unset or at least 30
\* minutes before now, and a grant records now as last_auto_watering_time.
C1_CooldownStep ==
    [][\A r \in Requests : CommitStep(r) =>
          LET local == inflight[r][1]
              permitted == Permitted(local.evaluation.should_water, local.now)
          IN  /\ local.should_water <=> permitted
              /\ SensorOk(response') => (response'.body.should_water <=> permitted)
              /\ permitted => last_auto_watering_time' = Some(local.now)]_vars

\* C1, the consequence: an answered ingestion whose evaluation asked for water
\* (status "Needs water") was granted at its own timestamp, or was refused
\* because a grant lies less than 30 minutes before it
C1_GrantThenRefuse ==
    (SensorOk(response) /\ response.body.plant_status = "Needs water") =>
        IF response.body.should_water
        THEN last_auto_watering_time = Some(response.body.timestamp)
        ELSE /\ last_auto_watering_time # None
             /\ response.body.timestamp - last_auto_watering_time[1] \in
                    0..(AUTO_WATERING_COOLDOWN - 1)

C1_CooldownRule == C1_CooldownStep /\ []C1_GrantThenRefuse

\* an ingestion refused 10 or 20 minutes after a grant
C1_Witness ==
    /\ SensorOk(response)
    /\ response.body.plant_status = "Needs water"
    /\ ~response.body.should_water
    /\ last_auto_watering_time # None
    /\ last_auto_watering_time[1] < response.body.timestamp

\* C2: no two automatic waterings are granted less than 30 minutes apart,
\* whatever the order of the requests: every should_water = true response
\* comes at least 30 minutes after the previous one.
C2_NoDoubleGrant ==
    [][\A r \in Requests :
          (CommitStep(r) /\ SensorOk(response') /\ response'.body.should_water) =>
              \/ last_grant = None
              \/ inflight[r][1].now - last_grant[1] >= AUTO_WATERING_COOLDOWN]_vars

\* a second ingestion at the very clock reading of a grant, refused
C2_Witness ==
    /\ SensorOk(response)
    /\ response.body.plant_status = "Needs water"
    /\ ~response.body.should_water
    /\ last_grant = Some(response.body.timestamp)

\* C3: a manual watering at time t sets last_auto_watering_time to t (so no
\* automatic watering is granted in the 30 minutes after it).
C3_ManualResetsCooldown ==
    [][(\E u \in Users : manual_water(u)) =>
          /\ response'.code = 200
          /\ last_auto_watering_time' = Some(now)]_vars

---------------------------------------------------------------------------
\* Properties of the evaluator (SpecEval)

\* whether the verdict v carries a recommendation with one of the texts
HasRec(v, texts) ==
    \E i \in DOMAIN v.recommendations : v.recommendations[i][1] \in texts

\* C4: should_water is true only if humidity < min_humidity and no rain is
\* forecast; with rain forecast and humidity below min_humidity it is false
\* whatever the temperature, the light and the other thresholds.
C4_WaterOnlyIfDryAndNoRain ==
    verdict # None =>
        LET in == eval_input[1]
            v == verdict[1]
            dry == in.sensor.humidity < in.thresholds.min_humidity
        IN  /\ v.should_water => (dry /\ ~in.weather.will_rain)
            /\ (in.weather.will_rain /\ dry) => ~v.should_water

\* dry, rain forecast, and too hot as well: no watering
C4_Witness ==
    /\ verdict # None
    /\ eval_input[1].weather.will_rain
    /\ eval_input[1].sensor.humidity < eval_input[1].thresholds.min_humidity
    /\ eval_input[1].sensor.temperature > eval_input[1].thresholds.max_temp
    /\ ~verdict[1].should_water

\* C5 as stated: humidity equal to min_humidity is never "Needs water", and a
\* value equal to max_temp, min_temp, min_light or max_light gives no
\* recommendation for its channel; a reading on every boundary is Healthy.
C5_BoundaryGivesNothing ==
    verdict # None =>
        LET in == eval_input[1]
            v == verdict[1]
            s == in.sensor
            th == in.thresholds
            on_temp == s.temperature \in {th.max_temp, th.min_temp}
            on_light == s.light_level \in {th.min_light, th.max_light}
        IN  /\ s.humidity = th.min_humidity => v.status # "Needs water"
            /\ on_temp => ~HasRec(v, {RecTempHigh, RecTempLow})
            /\ on_light => ~HasRec(v, {RecLightLow, RecLightHigh})
            /\ (s.humidity = th.min_humidity /\ on_temp /\ on_light) => v.status = "Healthy"

\* C5 as amended: every comparison is strict (a value equal to a threshold
\* never yields that threshold's recommendation, humidity equal to
\* min_humidity is never "Needs water"), and with min_temp <= max_temp and
\* min_light <= max_light a value on a threshold gives no recommendation for
\* its channel and a reading on every boundary is Healthy.
C5_StrictComparisons ==
    verdict # None =>
        LET in == eval_input[1]
            v == verdict[1]
            s == in.sensor
            th == in.thresholds
            on_temp == s.temperature \in {th.max_temp, th.min_temp}
            on_light == s.light_level \in {th.min_light, th.max_light}
        IN  /\ s.humidity = th.min_humidity =>
                   (v.status # "Needs water" /\ ~HasRec(v, {RecWater, RecRainSkip}))
            /\ s.temperature = th.max_temp => ~HasRec(v, {RecTempHigh})
            /\ s.temperature = th.min_temp => ~HasRec(v, {RecTempLow})
            /\ s.light_level = th.min_light => ~HasRec(v, {RecLightLow})
            /\ s.light_level = th.max_light => ~HasRec(v, {RecLightHigh})
            /\ (th.min_temp <= th.max_temp /\ on_temp) =>
                   ~HasRec(v, {RecTempHigh, RecTempLow})
            /\ (th.min_light <= th.max_light /\ on_light) =>
                   ~HasRec(v, {RecLightLow, RecLightHigh})
            /\ (/\ th.min_temp <= th.max_temp
                /\ th.min_light <= th.max_light
                /\ s.humidity = th.min_humidity
                /\ on_temp
                /\ on_light) => v.status = "Healthy"

\* a reading on the humidity, max_temp and max_light thresholds, evaluated
C5_Witness ==
    /\ verdict # None
    /\ eval_input[1].thresholds.min_temp <= eval_input[1].thresholds.max_temp
    /\ eval_input[1].sensor.humidity = eval_input[1].thresholds.min_humidity
    /\ eval_input[1].sensor.temperature = eval_input[1].thresholds.max_temp
    /\ eval_input[1].sensor.light_level = eval_input[1].thresholds.max_light
    /\ verdict[1].status = "Healthy"

\* C6: the status is one of Healthy, Needs water, Change position (never
\* No data): Healthy iff there is no recommendation, Needs water iff
\* should_water is true (other recommendations or not), Change position in
\* every other case, low humidity with rain forecast included.
C6_StatusPrecedence ==
    verdict # None =>
        LET in == eval_input[1]
            v == verdict[1]
        IN  /\ v.status \in {"Healthy", "Needs water", "Change position"}
            /\ v.status = "Healthy" <=> v.recommendations = << >>
            /\ v.status = "Needs water" <=> v.should_water
            /\ v.status = "Change position" <=>
                   (v.recommendations # << >> /\ ~v.should_water)
            /\ (in.sensor.humidity < in.thresholds.min_humidity /\ in.weather.will_rain)
                   => v.status = "Change position"

\* watering needed while a temperature and a light recommendation are present
C6_Witness ==
    /\ verdict # None
    /\ verdict[1].status = "Needs water"
    /\ Len(verdict[1].recommendations) = 3

---------------------------------------------------------------------------
\* Properties of the forecast path (SpecWeather)

\* a step of GET /api/weather, which calls get_weather_forecast
WeatherStep == \E read_ok \in BOOLEAN, net \in NetOutcomes : get_weather(read_ok, net)

\* C7: with a credential configured, get_weather_forecast makes the external
\* lookup iff there is no cached forecast or the cached forecast is at least 3
\* hours old; otherwise it returns the cached forecast and leaves the cache and
\* its timestamp alone; a successful lookup replaces both.
C7_CacheRule ==
    [][(WeatherStep /\ TruthyStr(WEATHER_API_KEY)) =>
          /\ response'.lookup # "none" <=>
                 \/ cached_weather = None
                 \/ /\ cached_weather_time # None
                    /\ now - cached_weather_time[1] >= WEATHER_CACHE_DURATION
          /\ response'.lookup = "none" =>
                 /\ response'.body = cached_weather[1]
                 /\ UNCHANGED <<cached_weather, cached_weather_time>>
          /\ response'.lookup = "ok" =>
                 /\ cached_weather' = Some(response'.body)
                 /\ cached_weather_time' = Some(now)]_vars

\* a forecast served from a cache entry 10 or 170 minutes old
C7_Witness ==
    /\ response # None
    /\ response.op = "weather"
    /\ response.lookup = "none"
    /\ cached_weather = Some(response.body)
    /\ cached_weather_time # None
    /\ cached_weather_time[1] < now

\* C8: a settings update clears the weather cache exactly when the new
\* location differs from the configured one (so the next forecast call looks
\* up afresh), and leaves the cache alone when the location stays the same.
C8_InvalidateOnLocationChange ==
    [][\A new \in SettingsInputs, u \in Users :
          (\E read_ok \in BOOLEAN : update_settings(new, u, read_ok, TRUE)) =>
              IF new.location # get_settings(TRUE).location
              THEN cached_weather' = None /\ cached_weather_time' = None
              ELSE UNCHANGED <<cached_weather, cached_weather_time>>]_vars

\* C9: a failed lookup (network error, non-success status, no credential)
\* returns the fallback forecast, will_rain = false and rain_amount = 0, for
\* the requested location and leaves the cache and its timestamp alone, so
\* the next call has no valid entry and looks up again.
C9_FailureNotCached ==
    [][\A read_ok \in BOOLEAN, net \in NetOutcomes :
          (/\ get_weather(read_ok, net)
           /\ (response'.lookup = "failed" \/ ~TruthyStr(WEATHER_API_KEY))) =>
              /\ response'.body.will_rain = FALSE
              /\ response'.body.rain_amount = 0
              /\ response'.body.location = get_settings(read_ok).location
              /\ UNCHANGED <<cached_weather, cached_weather_time>>
              /\ ~CacheValid']_vars

\* a lookup that failed over an expired cache entry, which stays in place
C9_Witness ==
    /\ response # None
    /\ response.op = "weather"
    /\ response.lookup = "failed"
    /\ response.body.condition = "Unknown"
    /\ cached_weather # None
    /\ cached_weather[1] # response.body

---------------------------------------------------------------------------
\* Properties of the alert de-duplicator (SpecDedup)

ExampleStatuses ==
    <<"Healthy", "Needs water", "Needs water", "Change position", "Healthy", "Needs water">>

\* the indices (from 0) of seq whose status is negative and differs from the
\* status before it; the first status differs from the unset one
TransitionsIntoNegative(seq) ==
    {i \in 0..(Len(seq) - 1) :
        /\ seq[i + 1] \in {"Needs water", "Change position", "No data"}
        /\ (i = 0 \/ seq[i] # seq[i + 1])}

\* C10: a verdict notifies iff its status differs from the last emitted one
\* and is Needs water, Change position or No data; the last emitted status is
\* updated on every verdict; the statuses Healthy, Needs water, Needs water,
\* Change position, Healthy, Needs water notify exactly at indices 1, 3, 5.
C10_Dedup ==
    /\ notified = TransitionsIntoNegative(status_seq)
    /\ last_emitted_status = IF status_seq = << >> THEN None
                             ELSE Some(status_seq[Len(status_seq)])
    /\ status_seq = ExampleStatuses => notified = {1, 3, 5}

\* the six statuses of the example processed
C10_Witness == status_seq = ExampleStatuses /\ notified = {1, 3, 5}

---------------------------------------------------------------------------
\* Properties of the device path (SpecDevice) and, further, of the irrigation
\* path (Spec)

\* C11: while device_commands.auto_watering_enabled is false no automatic
\* watering is granted: no ingestion returns should_water = true and none
\* advances last_auto_watering_time.
C11_NoGrantWhileDisabled ==
    [][\A r \in Requests :
          (CommitStep(r) /\ ~device_commands.auto_watering_enabled) =>
              /\ ~(SensorOk(response') /\ response'.body.should_water)
              /\ UNCHANGED last_auto_watering_time]_vars

\* C12: a persistence write failure during an ingestion (the reading insert
\* or the status insert) is not propagated: every ingestion is answered 200
\* with the status of its evaluation.
C12_WriteFailureNotPropagated ==
    (response # None /\ response.op = "sensor-data") =>
        /\ response.code = 200
        /\ response.body.plant_status \in {"Healthy", "Needs water", "Change position"}

\* C13: an ingestion whose evaluation has should_water = false, or whose
\* watering is refused because less than 30 minutes have passed since
\* last_auto_watering_time, leaves last_auto_watering_time unchanged, and the
\* only step that changes it is an ingestion granting a watering, which sets
\* it to that ingestion's clock reading.
C13_OnlyGrantMutates ==
    [][/\ \A r \in Requests : CommitStep(r) =>
              LET local == inflight[r][1]
              IN  ~Permitted(local.evaluation.should_water, local.now) =>
                      UNCHANGED last_auto_watering_time
       /\ last_auto_watering_time' # last_auto_watering_time =>
              \E r \in Requests :
                  /\ CommitStep(r)
                  /\ Permitted(inflight[r][1].evaluation.should_water, inflight[r][1].now)
                  /\ last_auto_watering_time' = Some(inflight[r][1].now)]_vars

\* a reading that needs no water, answered after an earlier grant and with a
\* manual watering pending: the time of the grant is still in place
C13_Witness ==
    /\ SensorOk(response)
    /\ response.body.plant_status = "Change position"
    /\ device_commands.manual_water
    /\ last_auto_watering_time # None
    /\ last_auto_watering_time[1] < response.body.timestamp

\* C19: an ingestion answered with an error leaves last_auto_watering_time
\* unchanged (the cooldown is consumed only when the grant is returned).
C19_ErrorKeepsCooldown ==
    [][\A r \in Requests :
          (CommitStep(r) /\ response'.code = 500) =>
              UNCHANGED last_auto_watering_time]_vars

\* C14: absent configuration is resolved by defaults: with no settings row,
\* or a settings read that fails, get_settings returns min_humidity 30,
\* max_temp 35, min_temp 15, min_light 20, max_light 80, location "Cagliari",
\* and with no weather credential get_weather_forecast returns the no-rain
\* "API not configured" forecast for the requested location; the caller is
\* answered 200.
C14_DefaultsNotErrors ==
    [][\A read_ok \in BOOLEAN, net \in NetOutcomes : get_weather(read_ok, net) =>
          /\ response'.code = 200
          /\ (~read_ok \/ settings = << >>) =>
                 get_settings(read_ok) =
                     [min_humidity |-> 30, max_temp |-> 35, min_temp |-> 15,
                      min_light |-> 20, max_light |-> 80, location |-> "Cagliari"]
          /\ ~TruthyStr(WEATHER_API_KEY) =>
                 /\ response'.lookup = "none"
                 /\ response'.body =
                        [will_rain |-> FALSE, rain_amount |-> 0,
                         condition |-> "API not configured",
                         location |-> get_settings(read_ok).location]]_vars

\* an empty credential and a failed read of a table whose row says Rome: the
\* "API not configured" forecast for Cagliari
C14_Witness ==
    /\ response # None
    /\ response.op = "weather"
    /\ WEATHER_API_KEY = Some("")
    /\ settings # << >>
    /\ settings[1].location = "Rome"
    /\ response.body.condition = "API not configured"
    /\ response.body.location = "Cagliari"

\* the channel a recommendation belongs to: 1 humidity, 2 temperature, 3 light
Channel(rec) ==
    IF rec[1] \in {RecWater, RecRainSkip} THEN 1
    ELSE IF rec[1] \in {RecTempHigh, RecTempLow} THEN 2
    ELSE 3

\* C15: the recommendations come in the order humidity, temperature, light,
\* with at most one per channel, also when min > max thresholds are
\* configured; a verdict carries at most three.
C15_OrderedAtMostThree ==
    verdict # None =>
        LET recs == verdict[1].recommendations
        IN  /\ \A i, j \in DOMAIN recs : i < j => Channel(recs[i]) < Channel(recs[j])
            /\ Len(recs) <= 3

\* min > max thresholds and a reading between them on both channels: three
\* recommendations
C15_Witness ==
    /\ verdict # None
    /\ eval_input[1].thresholds.min_temp > eval_input[1].thresholds.max_temp
    /\ eval_input[1].sensor.temperature > eval_input[1].thresholds.max_temp
    /\ eval_input[1].sensor.temperature < eval_input[1].thresholds.min_temp
    /\ eval_input[1].sensor.light_level < eval_input[1].thresholds.min_light
    /\ eval_input[1].sensor.light_level > eval_input[1].thresholds.max_light
    /\ Len(verdict[1].recommendations) = 3

\* the step in which request r's receive_sensor_data calls the evaluator
EvaluationStep(r) == inflight[r] = None /\ inflight'[r] # None

\* C16: the evaluator is pure: a call with the arguments of the call before
\* it returns the verdict of the call before it, whatever happened to the
\* cooldown clock, the weather cache and the command flags in between, and
\* the ingestion step that calls it changes no shared state but the reading
\* stored and the cache get_weather_forecast filled.
C16_EvaluatorPure ==
    [][\A r \in Requests : EvaluationStep(r) =>
          /\ eval_input' = eval_input => verdict' = verdict
          /\ verdict' # None
          /\ UNCHANGED <<last_auto_watering_time, device_commands, settings,
                         plant_status, WEATHER_API_KEY, now>>]_vars

\* a dry reading evaluated while the cooldown runs: the verdict asks for
\* water, the handler refuses it
C16_Witness ==
    /\ verdict # None
    /\ verdict[1].should_water
    /\ last_auto_watering_time # None
    /\ \E r \in Requests : inflight[r] # None /\ ~inflight[r][1].should_water

\* C17: the current-status query reports "No data" exactly when no reading
\* is stored, and never once a reading is stored.
C17_NoDataIffNoReading ==
    [][\A read_ok \in BOOLEAN :
          (get_current_status(read_ok) /\ response'.code = 200) =>
              (response'.body.status = "No data" <=> sensor_data = None)]_vars

\* a reading stored without a status record (its status insert failed): the
\* query reports "Unknown", not "No data"
C17_Witness ==
    /\ response # None
    /\ response.op = "current-status"
    /\ response.code = 200
    /\ sensor_data # None
    /\ plant_status = None
    /\ response.body.status = "Unknown"

\* C18: every forecast get_weather_forecast(location) returns has its
\* location field equal to the location requested.
C18_ForecastForRequestedLocation ==
    [][\A read_ok \in BOOLEAN, net \in NetOutcomes : get_weather(read_ok, net) =>
          response'.body.location = get_settings(read_ok).location]_vars

\* a step of GET /api/device-commands
PollStep == get_device_commands

\* C20: manual_water sets the manual_water flag; a poll returns the flag and
\* resets it, so a poll right after another poll returns false; the flag
\* changes in no other step; the poll never changes auto_watering_enabled.
C20_OneShotFlag ==
    [][/\ (\E u \in Users : manual_water(u)) => device_commands'.manual_water
       /\ PollStep =>
              /\ response'.body.manual_water = device_commands.manual_water
              /\ ~device_commands'.manual_water
              /\ device_commands'.auto_watering_enabled = device_commands.auto_watering_enabled
              /\ (response # None /\ response.op = "device-commands") =>
                     ~response'.body.manual_water
       /\ device_commands'.manual_water # device_commands.manual_water =>
              (PollStep \/ \E u \in Users : manual_water(u))]_vars

\* a manual trigger delivered by the last poll, the flag reset, automatic
\* watering enabled before and after
C20_Witness ==
    /\ response # None
    /\ response.op = "device-commands"
    /\ response.body.manual_water
    /\ response.body.auto_watering_enabled
    /\ ~device_commands.manual_water
    /\ device_commands.auto_watering_enabled

---------------------------------------------------------------------------
\* Properties of the settings store, the status query, the auto-watering
\* flag and the cache variables

\* C21: after update_settings by any user returns success with thresholds T,
\* get_settings returns T, whatever the number of users and settings rows.
C21_ReadYourWrites ==
    [][\A new \in SettingsInputs, u \in Users :
          (/\ \E read_ok \in BOOLEAN : update_settings(new, u, read_ok, TRUE)
           /\ response'.code = 200) =>
              /\ settings' # << >>
              /\ Thresholds(settings'[1].min_humidity, settings'[1].max_temp,
                            settings'[1].min_temp, settings'[1].min_light,
                            settings'[1].max_light, settings'[1].location) = new]_vars

\* C22: whenever the current-status query returns a reading, the status it
\* reports is the status record of that reading: the newest status record
\* exists and carries the timestamp of the newest reading.
C22_StatusOfSameReading ==
    [][\A read_ok \in BOOLEAN :
          (/\ get_current_status(read_ok)
           /\ response'.code = 200
           /\ response'.body.status # "No data") =>
              /\ plant_status # None
              /\ plant_status[1].timestamp = response'.body.timestamp
              /\ plant_status[1].status = response'.body.status]_vars

\* a step of POST /api/toggle-auto-watering
ToggleStep == \E u \in Users : toggle_auto_watering(u)

\* C23: auto_watering_enabled starts false and changes only in a toggle; a
\* toggle flips it and returns the new value, so a toggle right after a
\* toggle restores the value before the pair; the status, health and
\* device-commands reads report the flag and leave it alone.
C23_ToggleFlag ==
    /\ ~device_commands.auto_watering_enabled
    /\ [][/\ ToggleStep =>
                /\ device_commands'.auto_watering_enabled = ~device_commands.auto_watering_enabled
                /\ response'.body.auto_watering_enabled = device_commands'.auto_watering_enabled
                /\ (response # None /\ response.op = "toggle-auto-watering") =>
                       device_commands'.auto_watering_enabled = ~response.body.auto_watering_enabled
          /\ device_commands'.auto_watering_enabled # device_commands.auto_watering_enabled =>
                ToggleStep
          /\ (get_current_status(TRUE) \/ get_device_commands) =>
                response'.body.auto_watering_enabled = device_commands.auto_watering_enabled
          /\ health_check =>
                response'.body.auto_watering = device_commands.auto_watering_enabled]_vars

\* a toggle answered false: the flag was switched on and off again
C23_Witness ==
    /\ response # None
    /\ response.op = "toggle-auto-watering"
    /\ ~response.body.auto_watering_enabled
    /\ ~device_commands.auto_watering_enabled

\* C24: cached_weather and cached_weather_time are both unset or both set,
\* and a cached forecast comes from a successful lookup made at the cached
\* time: it is never a fallback forecast.
C24_CachePair ==
    /\ cached_weather = None <=> cached_weather_time = None
    /\ cached_weather # None =>
           /\ cached_weather[1].condition \notin {"Unknown", "API not configured"}
           /\ \E net \in NetOutcomes :
                  /\ net.kind = "ok"
                  /\ cached_weather[1].condition = net.text
                  /\ cached_weather[1].will_rain = (net.daily_will_it_rain = 1)
                  /\ cached_weather[1].rain_amount = net.totalprecip_mm
           /\ cached_weather_time[1] <= now

\* a settings update that kept the location, answered with the cache in place
C24_Witness ==
    /\ response # None
    /\ response.op = "settings"
    /\ response.code = 200
    /\ cached_weather # None
    /\ cached_weather_time # None

====
